---- MODULE Spec2Model ----
(***************************************************************************)
(* Verification model of the Lumina Studio timeline editor (App component, *)
(* PropertiesPanel) : the project state, the edit handlers, the transport  *)
(* and the audio synchronisation effect; of the VideoCanvas compositor;    *)
(* and of the export graph builders.                                       *)
(*                                                                         *)
(* Time is counted in units of 0.1 s (the minimum item duration of the     *)
(* resize handler), so 0.1 s = 1, 0.3 s = 3, 5 s = 50 and 10 s = 100.       *)
(* Track volumes and opacities are percentages (0.5 = 50).                 *)
(***************************************************************************)
EXTENDS Integers, Sequences, FiniteSets, TLC

VARIABLES project, currentTime, selectedItemId, draggingItem, draggingAssetId,
          dragType, resizingItem, audioElements, isPlaying, clock, startTimeRef,
          raf, pendingTime, playStart, op, edits, videoElements, canvas,
          filterComplex, job, request, inflight, tmpFile,
          user, saveTimeoutRef, unsaved, cloud, ffmpegService, callers, previous

vars == << project, currentTime, selectedItemId, draggingItem, draggingAssetId,
           dragType, resizingItem, audioElements, isPlaying, clock, startTimeRef,
           raf, pendingTime, playStart, op, edits, videoElements, canvas,
           filterComplex, job, request, inflight, tmpFile,
           user, saveTimeoutRef, unsaved, cloud, ffmpegService, callers, previous >>

\* the state of the VideoCanvas component: its video elements and what its
\* last pass drew.  The editor and the transport are explored with the canvas
\* left alone; the canvas is explored on its own, for every value of its props.
canvasVars == << videoElements, canvas >>

\* the filter graph the last export built; the editor, the transport and the
\* canvas leave it alone
exportVars == << filterComplex >>

\* the export job of the edge function: its row in export_jobs, the request
\* being handled, the progress updates on their way to the table and the
\* output file in /tmp
jobVars == << job, request, inflight, tmpFile >>

\* auto-save: the signed-in user, the pending timeout of the auto-save effect
\* (the time left until it fires, in steps of 10 s), the project last given
\* to saveProject, and for how long the oldest change not yet saved has been
\* waiting
saveVars == << user, saveTimeoutRef, unsaved, cloud >>

\* the FFmpegService singleton (its loaded and loading flags) and where each
\* caller of load() stands
loadVars == << ffmpegService, callers >>

\* what lies outside the editor, the canvas and the graph builders
serviceVars == << jobVars, loadVars >>

\* the state of the editor.  previous is the model object the last updater
\* passed to setProject was given: the timeline it held when the updater was
\* called (before), the timeline it holds now that the updater has returned
\* (prev), and the timeline of the model the updater returned (next)
editVars == << project, currentTime, selectedItemId, draggingItem, draggingAssetId,
               dragType, resizingItem, audioElements, previous >>

transportVars == << isPlaying, clock, startTimeRef, raf, pendingTime, playStart >>

(***************************************************************************)
(* Bounds of the exploration.                                              *)
(***************************************************************************)
MaxItems == 2
MaxEdits == 2
MaxAssets == 1
MaxTime == 2
MaxClock == 4
MaxDelay == 1
MaxVideoTicks == 1
MaxUnsaved == 5
MaxCallers == 3

(***************************************************************************)
(* Program constants.                                                      *)
(***************************************************************************)
MinDuration == 1
DefaultStillDuration == 50
DefaultMediaDuration == 100
TextDuration == 50
DriftTolerance == 3
\* setTimeout(..., 30000), in steps of 10 s
AutoSaveDelay == 3

NoId == 0
NoTime == -1
NoInput == -1
NoTimer == -1

Max(a, b) == IF a >= b THEN a ELSE b
Abs(a) == IF a >= 0 THEN a ELSE 0 - a

(***************************************************************************)
(* Inputs: positions on the timeline a click, drop or pointer can have,    *)
(* the numbers typed into the properties panel, the files uploaded.        *)
(***************************************************************************)
TimelineTimes == 0..MaxTime
PointerTimes == 0..MaxTime
PanelNumbers == {-1, 0, 2}
UploadKinds == {"video", "image", "audio"}
UploadDuration(kind) == IF kind = "audio" THEN 2 ELSE 0

(***************************************************************************)
(* The project of useState<ProjectState>.                                  *)
(***************************************************************************)
InitialTimeline ==
    << [id |-> "v1", type |-> "video", volume |-> 100, items |-> << >>],
       [id |-> "v2", type |-> "video", volume |-> 100, items |-> << >>],
       [id |-> "t1", type |-> "text",  volume |-> 100, items |-> << >>],
       [id |-> "a1", type |-> "audio", volume |-> 50,  items |-> << >>],
       [id |-> "a2", type |-> "audio", volume |-> 100, items |-> << >>] >>

TrackIndexes == 1..Len(InitialTimeline)
TrackIds == {InitialTimeline[k].id : k \in TrackIndexes}

NoItem == [id |-> NoId, assetId |-> NoId, startTime |-> 0, duration |-> 0, layer |-> 0]
NoAsset == [id |-> NoId, type |-> "none", duration |-> 0]
NoDrag == [itemId |-> NoId, trackId |-> "none"]
NoResize == [itemId |-> NoId, side |-> "none", initialStart |-> 0, initialDuration |-> 0]
NoPlay == [wall |-> 0, logical |-> 0, seeked |-> FALSE]
NoOp == [name |-> "init", applied |-> FALSE, arg |-> 0]
NoExport ==
    [builder |-> "none", maxDuration |-> 0, video |-> << >>, audio |-> << >>,
     overlay |-> << >>, inputs |-> << >>,
     vmap |-> [label |-> "", input |-> NoInput], amap |-> [label |-> "", input |-> NoInput]]

\* a row of export_jobs as the table creates it: status 'pending', progress 0
NewJob == [status |-> "pending", progress |-> 0, error_message |-> "", output_url |-> ""]

\* the concurrent callers of FFmpegService.load()
LoadCallers == 1..MaxCallers

\* no project has been given to saveProject
NothingSaved == [assets |-> << >>, timeline |-> << >>]

\* no request has reached the edge function
NoRequest == [pc |-> "none", bodyUsed |-> FALSE, error |-> ""]

RECURSIVE FlatItems(_, _)
FlatItems(tl, k) ==
    IF k > Len(tl) THEN << >> ELSE tl[k].items \o FlatItems(tl, k + 1)

\* project.timeline.flatMap(t => t.items)
AllItems(tl) == FlatItems(tl, 1)

ItemIds(tl) == {AllItems(tl)[k].id : k \in 1..Len(AllItems(tl))}

\* Array.prototype.find on the items of a track / of the timeline
FindItem(items, id) ==
    IF \E k \in 1..Len(items) : items[k].id = id
    THEN items[CHOOSE k \in 1..Len(items) :
                 /\ items[k].id = id
                 /\ \A j \in 1..(k - 1) : items[j].id /= id]
    ELSE NoItem

\* Array.prototype.findIndex (0 stands for -1, positions are 1-based)
FindIndex(items, id) ==
    IF \E k \in 1..Len(items) : items[k].id = id
    THEN CHOOSE k \in 1..Len(items) :
           /\ items[k].id = id
           /\ \A j \in 1..(k - 1) : items[j].id /= id
    ELSE 0

\* project.assets.find(a => a.id === id)
FindAsset(assets, id) ==
    IF \E k \in 1..Len(assets) : assets[k].id = id
    THEN assets[CHOOSE k \in 1..Len(assets) :
                  /\ assets[k].id = id
                  /\ \A j \in 1..(k - 1) : assets[j].id /= id]
    ELSE NoAsset

\* prev.timeline.find(t => t.id === id)
FindTrack(tl, id) ==
    IF \E k \in 1..Len(tl) : tl[k].id = id
    THEN tl[CHOOSE k \in 1..Len(tl) : tl[k].id = id]
    ELSE [id |-> "none", type |-> "none", volume |-> 0, items |-> << >>]

\* the track that holds an item ("none" when no track does)
TrackOf(tl, id) ==
    IF \E k \in 1..Len(tl) : FindIndex(tl[k].items, id) /= 0
    THEN tl[CHOOSE k \in 1..Len(tl) :
              /\ FindIndex(tl[k].items, id) /= 0
              /\ \A j \in 1..(k - 1) : FindIndex(tl[j].items, id) = 0].id
    ELSE "none"

\* Math.random().toString(36) : an id no object and no reference holds
UsedIds ==
    ItemIds(project.timeline) \cup {selectedItemId, draggingItem.itemId,
                                    resizingItem.itemId} \cup DOMAIN audioElements
FreshId == CHOOSE n \in 1..(Cardinality(UsedIds) + 1) : n \notin UsedIds
FreshAssetId == Len(project.assets) + 1

(***************************************************************************)
(* Audio bindings: audioElementsRef maps an item id to an HTMLAudioElement,*)
(* of which the model keeps the paused flag and the position.              *)
(***************************************************************************)
\* item.volume ?? 1, as a percentage
ItemGain(item) == IF "volume" \in DOMAIN item THEN item.volume ELSE 100

NewAudio == [paused |-> TRUE, position |-> 0, volume |-> 0]

IsAudioItem(proj, item) == FindAsset(proj.assets, item.assetId).type = "audio"

AudioItemIds(proj) ==
    {AllItems(proj.timeline)[k].id : k \in
        {j \in 1..Len(AllItems(proj.timeline)) : IsAudioItem(proj, AllItems(proj.timeline)[j])}}

\* the binding effect without its tear-down loop
BindAudioKeepsOld(proj, audio) ==
    [id \in AudioItemIds(proj) \cup DOMAIN audio |->
        IF id \in DOMAIN audio THEN audio[id] ELSE NewAudio]

\* the effect on [project.timeline, project.assets]: tear down, then create
BindAudio(proj, audio) ==
    [id \in AudioItemIds(proj) |->
        IF id \in DOMAIN audio THEN audio[id] ELSE NewAudio]

IsInside(time, item) ==
    time >= item.startTime /\ time < item.startTime + item.duration

\* syncAudio seeking on every pass, whatever the drift
SyncOneAlwaysSeeks(a, item, playing, time) ==
    IF playing /\ IsInside(time, item)
    THEN [a EXCEPT !.paused = FALSE, !.position = time - item.startTime]
    ELSE IF ~a.paused THEN [a EXCEPT !.paused = TRUE, !.position = 0] ELSE a

\* syncAudio without its pause branch
SyncOneNeverPauses(a, item, playing, time) ==
    IF playing /\ IsInside(time, item)
    THEN [a EXCEPT !.paused = FALSE,
                   !.position = IF Abs(a.position - (time - item.startTime)) > DriftTolerance
                                THEN time - item.startTime
                                ELSE a.position]
    ELSE a

\* one element of the forEach of syncAudio
SyncOne(a, item, playing, time) ==
    IF playing /\ IsInside(time, item)
    THEN [a EXCEPT !.paused = FALSE,
                   !.position = IF Abs(a.position - (time - item.startTime)) > DriftTolerance
                                THEN time - item.startTime
                                ELSE a.position]
    ELSE IF ~a.paused THEN [a EXCEPT !.paused = TRUE, !.position = 0] ELSE a

\* syncAudio: elements whose item is in no track are skipped; the others get
\* the volume of the item's track before the play / pause branch
SyncAudio(audio, tl, playing, time) ==
    [id \in DOMAIN audio |->
        IF FindItem(AllItems(tl), id) = NoItem
        THEN audio[id]
        ELSE SyncOne([audio[id] EXCEPT !.volume = FindTrack(tl, TrackOf(tl, id)).volume],
                     FindItem(AllItems(tl), id), playing, time)]

\* the elements a sync pass while playing finds active and more than the
\* tolerance away from itemLocalTime
Drifted(audio, tl, time) ==
    {id \in DOMAIN audio :
        /\ FindItem(AllItems(tl), id) /= NoItem
        /\ IsInside(time, FindItem(AllItems(tl), id))
        /\ Abs(audio[id].position - (time - FindItem(AllItems(tl), id).startTime))
              > DriftTolerance}

(***************************************************************************)
(* The effects that follow a commit of new state: the binding effect, then *)
(* the playback effect on [isPlaying, currentTime, project.timeline].      *)
(* While playing the playback effect records performance.now() minus the   *)
(* playhead and requests a frame; while stopped it cancels the frame and   *)
(* runs one sync pass.                                                     *)
(***************************************************************************)
PlaybackEffect(playing, time, proj, audio) ==
    IF playing
    THEN /\ startTimeRef' = clock - time
         /\ raf' = TRUE
         /\ audioElements' = audio
    ELSE /\ startTimeRef' = startTimeRef
         /\ raf' = FALSE
         /\ audioElements' = SyncAudio(audio, proj.timeline, FALSE, time)

\* a commit in which the timeline (or the playhead) changed
Effects(proj, time) ==
    PlaybackEffect(isPlaying, time, proj, BindAudio(proj, audioElements))

\* the auto-save effect on [project, user] after a handler that committed a
\* new project: the pending timeout is cleared and one of 30 s is set
AutoSaveEffect(committed) ==
    /\ saveTimeoutRef' = IF committed /\ user THEN AutoSaveDelay ELSE saveTimeoutRef
    /\ unsaved' = IF committed /\ unsaved = NoTime THEN 0 ELSE unsaved
    /\ UNCHANGED << user, cloud >>

\* a handler may run only between commits
Idle == pendingTime = NoTime

\* the last handler that ran, and whether it took its main branch
Done(name, applied) ==
    /\ op' = [name |-> name, applied |-> applied, arg |-> 0]
    /\ edits' = edits
    /\ UNCHANGED canvasVars
    /\ UNCHANGED exportVars
    /\ UNCHANGED serviceVars
    /\ UNCHANGED saveVars
    /\ UNCHANGED previous

\* the same for a handler that gives the timeline a new value: the exploration
\* follows at most MaxEdits of them
Edited(name, applied) ==
    /\ edits < MaxEdits
    /\ op' = [name |-> name, applied |-> applied, arg |-> 0]
    /\ edits' = edits + 1
    /\ AutoSaveEffect(applied)
    /\ UNCHANGED canvasVars
    /\ UNCHANGED exportVars
    /\ UNCHANGED serviceVars

\* a resize step, with the pointer position it was given
Resized(p, applied) ==
    /\ edits < MaxEdits
    /\ op' = [name |-> "resize", applied |-> applied, arg |-> p]
    /\ edits' = edits + 1
    /\ AutoSaveEffect(TRUE)
    /\ UNCHANGED canvasVars
    /\ UNCHANGED exportVars
    /\ UNCHANGED serviceVars

\* no drag and no resize is in progress: the pointer is free for a click
PointerFree == dragType = "none" /\ resizingItem = NoResize

(***************************************************************************)
(* The objects an updater passed to setProject works on.  The track        *)
(* objects of the previous model are at the addresses 1..Len(tl) of the    *)
(* heap, each with its own items array; a track object the updater makes   *)
(* for track k is at the address Len(tl) + k.  An updater gives the heap   *)
(* it leaves behind and the addresses of the tracks of the model it        *)
(* returns.                                                                *)
(***************************************************************************)
PrevRefs(tl) == [k \in 1..Len(tl) |-> k]

Deref(heap, refs) == [k \in 1..Len(refs) |-> heap[refs[k]]]

\* return prev
ReturnPrev(tl) == [heap |-> tl, timeline |-> PrevRefs(tl)]

\* prev.timeline.map(t => ...): the tracks in copied get a new object
\* { ...t, items: ... } holding the items of newTl, the others are returned
\* as they are
MapTracks(tl, newTl, copied) ==
    [heap |-> tl \o newTl,
     timeline |-> [k \in 1..Len(tl) |-> IF k \in copied THEN Len(tl) + k ELSE k]]

\* what the updater did to the model it was given
Observed(tl, result) ==
    [before |-> tl,
     prev |-> Deref(result.heap, PrevRefs(tl)),
     next |-> Deref(result.heap, result.timeline)]

(***************************************************************************)
(* Library: processFiles appends the uploaded assets.                      *)
(***************************************************************************)
ProcessFiles(kind) ==
    /\ Idle
    /\ PointerFree
    /\ Len(project.assets) < MaxAssets
    /\ project' = [project EXCEPT !.assets =
                     Append(@, [id |-> FreshAssetId, type |-> kind,
                                duration |-> UploadDuration(kind)])]
    /\ Done("ui", TRUE)
    /\ UNCHANGED << currentTime, selectedItemId, draggingItem, draggingAssetId,
                    dragType, resizingItem >>
    /\ audioElements' = BindAudio(project', audioElements)
    /\ UNCHANGED transportVars

(***************************************************************************)
(* addToTimeline                                                           *)
(***************************************************************************)
ItemDuration(asset) ==
    IF asset.duration /= 0 THEN asset.duration
    ELSE IF asset.type = "image" \/ asset.type = "text"
         THEN DefaultStillDuration ELSE DefaultMediaDuration

TrackMatches(asset, t) ==
    \/ asset.type = "audio" /\ t.type = "audio"
    \/ asset.type = "text" /\ t.type = "text"
    \/ asset.type /= "audio" /\ asset.type /= "text" /\ t.type = "video"

ResolveTrack(tl, asset, targetTrackId) ==
    IF targetTrackId /= "" THEN targetTrackId
    ELSE IF \E k \in 1..Len(tl) : TrackMatches(asset, tl[k])
         THEN tl[CHOOSE k \in 1..Len(tl) :
                   /\ TrackMatches(asset, tl[k])
                   /\ \A j \in 1..(k - 1) : ~TrackMatches(asset, tl[j])].id
         ELSE "v1"

\* a new item put on layer 1
NewTimelineItemOnLayerOne(asset, startTime, newId) ==
    [id |-> newId, assetId |-> asset.id, startTime |-> startTime,
     duration |-> ItemDuration(asset), layer |-> 1]

NewTimelineItem(asset, startTime, newId) ==
    [id |-> newId, assetId |-> asset.id, startTime |-> startTime,
     duration |-> ItemDuration(asset), layer |-> 0]

AddToTimeline(proj, asset, targetTrackId, startTime, newId) ==
    [proj EXCEPT !.timeline =
        [k \in 1..Len(@) |->
            IF @[k].id = ResolveTrack(proj.timeline, asset, targetTrackId)
            THEN [@[k] EXCEPT !.items = Append(@, NewTimelineItem(asset, startTime, newId))]
            ELSE @[k]]]

\* the updater of addToTimeline: a new object for the resolved track only
AddUpdater(proj, asset, targetTrackId, startTime, newId) ==
    MapTracks(proj.timeline,
              AddToTimeline(proj, asset, targetTrackId, startTime, newId).timeline,
              {k \in 1..Len(proj.timeline) :
                 proj.timeline[k].id = ResolveTrack(proj.timeline, asset, targetTrackId)})

\* click on a library asset
AssetClick(k) ==
    /\ Idle
    /\ PointerFree
    /\ k \in 1..Len(project.assets)
    /\ Len(AllItems(project.timeline)) < MaxItems
    /\ project' = AddToTimeline(project, project.assets[k], "", currentTime, FreshId)
    /\ selectedItemId' = FreshId
    /\ Edited("addToTimeline", TRUE)
    /\ previous' = Observed(project.timeline,
                            AddUpdater(project, project.assets[k], "", currentTime, FreshId))
    /\ UNCHANGED << currentTime, draggingItem, draggingAssetId, dragType, resizingItem >>
    /\ Effects(project', currentTime)
    /\ UNCHANGED << isPlaying, clock, pendingTime, playStart >>

TextAsset(id) == [id |-> id, type |-> "text", duration |-> TextDuration]

addTextToTimeline ==
    /\ Idle
    /\ PointerFree
    /\ Len(project.assets) < MaxAssets
    /\ Len(AllItems(project.timeline)) < MaxItems
    /\ project' = AddToTimeline(
                     [project EXCEPT !.assets = << TextAsset(FreshAssetId) >> \o @],
                     TextAsset(FreshAssetId), "", currentTime, FreshId)
    /\ selectedItemId' = FreshId
    /\ Edited("addTextToTimeline", TRUE)
    /\ previous' = Observed(project.timeline,
                            AddUpdater(project, TextAsset(FreshAssetId), "", currentTime,
                                       FreshId))
    /\ UNCHANGED << currentTime, draggingItem, draggingAssetId, dragType, resizingItem >>
    /\ Effects(project', currentTime)
    /\ UNCHANGED << isPlaying, clock, pendingTime, playStart >>

(***************************************************************************)
(* Selection, and the start of a drag or of a resize.                      *)
(***************************************************************************)
ItemClick(id) ==
    /\ Idle
    /\ PointerFree
    /\ id \in ItemIds(project.timeline)
    /\ selectedItemId' = id
    /\ Done("ui", TRUE)
    /\ UNCHANGED << project, currentTime, draggingItem, draggingAssetId, dragType,
                    resizingItem, audioElements >>
    /\ UNCHANGED transportVars

\* onClose of the properties panel, shown while the selected item and its asset exist
PanelShown ==
    /\ selectedItemId /= NoId
    /\ FindItem(AllItems(project.timeline), selectedItemId) /= NoItem
    /\ FindAsset(project.assets,
                 FindItem(AllItems(project.timeline), selectedItemId).assetId) /= NoAsset

PanelClose ==
    /\ Idle
    /\ PointerFree
    /\ PanelShown
    /\ selectedItemId' = NoId
    /\ Done("ui", TRUE)
    /\ UNCHANGED << project, currentTime, draggingItem, draggingAssetId, dragType,
                    resizingItem, audioElements >>
    /\ UNCHANGED transportVars

DragStartAsset(k) ==
    /\ Idle
    /\ PointerFree
    /\ k \in 1..Len(project.assets)
    /\ draggingAssetId' = project.assets[k].id
    /\ dragType' = "library-asset"
    /\ Done("ui", TRUE)
    /\ UNCHANGED << project, currentTime, selectedItemId, draggingItem, resizingItem,
                    audioElements >>
    /\ UNCHANGED transportVars

DragStartItem(id) ==
    /\ Idle
    /\ PointerFree
    /\ id \in ItemIds(project.timeline)
    /\ draggingItem' = [itemId |-> id, trackId |-> TrackOf(project.timeline, id)]
    /\ dragType' = "timeline-item"
    /\ Done("ui", TRUE)
    /\ UNCHANGED << project, currentTime, selectedItemId, draggingAssetId, resizingItem,
                    audioElements >>
    /\ UNCHANGED transportVars

handleResizeStart(id, side) ==
    /\ Idle
    /\ PointerFree
    /\ id \in ItemIds(project.timeline)
    /\ resizingItem' =
         [itemId |-> id, side |-> side,
          initialStart |-> FindItem(AllItems(project.timeline), id).startTime,
          initialDuration |-> FindItem(AllItems(project.timeline), id).duration]
    /\ Done("ui", TRUE)
    /\ UNCHANGED << project, currentTime, selectedItemId, draggingItem, draggingAssetId,
                    dragType, audioElements >>
    /\ UNCHANGED transportVars

handleMouseUp ==
    /\ Idle
    /\ resizingItem /= NoResize
    /\ resizingItem' = NoResize
    /\ Done("ui", TRUE)
    /\ UNCHANGED << project, currentTime, selectedItemId, draggingItem, draggingAssetId,
                    dragType, audioElements >>
    /\ UNCHANGED transportVars

(***************************************************************************)
(* handleMouseMove while a resize is in progress.  The pointer is at       *)
(* timeline position p; the button went down on the edge being dragged, so *)
(* deltaX is p minus the position that edge had at that moment.            *)
(***************************************************************************)
DeltaX(rz, p) ==
    IF rz.side = "start" THEN p - rz.initialStart
    ELSE p - (rz.initialStart + rz.initialDuration)

\* the resize without Math.max(0.1, ...)
ResizedItemUnclamped(i, rz, deltaX) ==
    IF i.id /= rz.itemId THEN i
    ELSE IF rz.side = "start"
         THEN [i EXCEPT
                 !.startTime = Max(0, rz.initialStart + deltaX),
                 !.duration = rz.initialDuration
                                - (Max(0, rz.initialStart + deltaX) - rz.initialStart)]
         ELSE [i EXCEPT !.duration = rz.initialDuration + deltaX]

ResizedItem(i, rz, deltaX) ==
    IF i.id /= rz.itemId THEN i
    ELSE IF rz.side = "start"
         THEN [i EXCEPT
                 !.startTime = Max(0, rz.initialStart + deltaX),
                 !.duration = Max(MinDuration,
                                  rz.initialDuration
                                    - (Max(0, rz.initialStart + deltaX) - rz.initialStart))]
         ELSE [i EXCEPT !.duration = Max(MinDuration, rz.initialDuration + deltaX)]

MapItems(tl, F(_)) ==
    [k \in 1..Len(tl) |->
        [tl[k] EXCEPT !.items = [j \in 1..Len(tl[k].items) |-> F(tl[k].items[j])]]]

\* prev.timeline.map(track => ({ ...track, items: track.items.map(...) })): a
\* new object for every track
MapAllTracks(tl, newTl) == MapTracks(tl, newTl, 1..Len(tl))

handleMouseMove(p) ==
    /\ Idle
    /\ resizingItem /= NoResize
    /\ LET F(i) == ResizedItem(i, resizingItem, DeltaX(resizingItem, p))
       IN /\ project' = [project EXCEPT !.timeline = MapItems(@, F)]
          /\ previous' = Observed(project.timeline,
                                  MapAllTracks(project.timeline,
                                               MapItems(project.timeline, F)))
    /\ Resized(p, FindItem(AllItems(project.timeline), resizingItem.itemId) /= NoItem)
    /\ UNCHANGED << currentTime, selectedItemId, draggingItem, draggingAssetId, dragType,
                    resizingItem >>
    /\ Effects(project', currentTime)
    /\ UNCHANGED << isPlaying, clock, pendingTime, playStart >>

(***************************************************************************)
(* handleUpdateItem, called by the properties panel with one field.        *)
(* parseFloat(value) || 0 for the start time, || 0.1 for the duration.     *)
(***************************************************************************)
PanelStartTime(n) == IF n /= 0 THEN n ELSE 0
PanelDuration(n) == IF n /= 0 THEN n ELSE MinDuration
Updated(item, field, value) ==
    IF field = "startTime" THEN [item EXCEPT !.startTime = value]
    ELSE IF field = "duration" THEN [item EXCEPT !.duration = value]
    ELSE item

handleUpdateItem(field, value) ==
    /\ Idle
    /\ PointerFree
    /\ PanelShown
    /\ LET F(i) == IF i.id = selectedItemId THEN Updated(i, field, value) ELSE i
       IN /\ project' = [project EXCEPT !.timeline = MapItems(@, F)]
          /\ previous' = Observed(project.timeline,
                                  MapAllTracks(project.timeline,
                                               MapItems(project.timeline, F)))
    /\ Edited("updateItem", TRUE)
    /\ UNCHANGED << currentTime, selectedItemId, draggingItem, draggingAssetId, dragType,
                    resizingItem >>
    /\ Effects(project', currentTime)
    /\ UNCHANGED << isPlaying, clock, pendingTime, playStart >>

PanelInput ==
    \/ \E n \in PanelNumbers : handleUpdateItem("startTime", PanelStartTime(n))
    \/ \E n \in PanelNumbers : handleUpdateItem("duration", PanelDuration(n))

(***************************************************************************)
(* handleSplit: the first track that holds the selected item with the      *)
(* playhead strictly inside it gets the item replaced by its two parts.    *)
(***************************************************************************)
\* the range test of handleSplit with the boundaries included
InsideInclusive(time, item) ==
    time >= item.startTime /\ time <= item.startTime + item.duration

StrictlyInside(time, item) ==
    time > item.startTime /\ time < item.startTime + item.duration

SplitsAt(tl, k, id, time) ==
    /\ FindIndex(tl[k].items, id) /= 0
    /\ StrictlyInside(time, tl[k].items[FindIndex(tl[k].items, id)])

\* index of the track the loop of handleSplit stops at (0: it runs to the end)
SplitTrack(tl, id, time) ==
    IF \E k \in 1..Len(tl) : SplitsAt(tl, k, id, time)
    THEN CHOOSE k \in 1..Len(tl) :
           /\ SplitsAt(tl, k, id, time)
           /\ \A j \in 1..(k - 1) : ~SplitsAt(tl, j, id, time)
    ELSE 0

FirstPart(item, time) == [item EXCEPT !.duration = time - item.startTime]

\* a second part that keeps the whole duration
SecondPartFullDuration(item, time, newId) ==
    [item EXCEPT !.id = newId, !.startTime = time]

SecondPart(item, time, newId) ==
    [item EXCEPT !.id = newId, !.startTime = time,
                 !.duration = item.duration - (time - item.startTime)]

\* items.splice(itemIdx, 1, firstPart, secondPart)
Splice(items, idx, first, second) ==
    SubSeq(items, 1, idx - 1) \o << first, second >> \o SubSeq(items, idx + 1, Len(items))

SplitTimeline(tl, id, time, newId) ==
    [k \in 1..Len(tl) |->
        IF k = SplitTrack(tl, id, time)
        THEN [tl[k] EXCEPT !.items =
                Splice(@, FindIndex(@, id),
                       FirstPart(@[FindIndex(@, id)], time),
                       SecondPart(@[FindIndex(@, id)], time, newId))]
        ELSE tl[k]]

\* the updater of handleSplit: newTimeline = [...prev.timeline] holds the track
\* objects of prev, and track.items.splice(...) changes the items array of one
\* of them in place
SplitUpdater(tl, id, time, newId) ==
    [heap |-> SplitTimeline(tl, id, time, newId), timeline |-> PrevRefs(tl)]

handleSplit ==
    /\ Idle
    /\ PointerFree
    /\ IF selectedItemId = NoId
       THEN /\ UNCHANGED << project, selectedItemId, audioElements, startTimeRef, raf >>
            /\ Done("split", FALSE)
       ELSE /\ SplitTrack(project.timeline, selectedItemId, currentTime) /= 0
                 => Len(AllItems(project.timeline)) < MaxItems
            /\ project' = [project EXCEPT !.timeline =
                             SplitTimeline(@, selectedItemId, currentTime, FreshId)]
            /\ selectedItemId' =
                 IF SplitTrack(project.timeline, selectedItemId, currentTime) /= 0
                 THEN FreshId ELSE selectedItemId
            /\ IF SplitTrack(project.timeline, selectedItemId, currentTime) /= 0
               THEN /\ Edited("split", TRUE)
                    /\ previous' = Observed(project.timeline,
                                            SplitUpdater(project.timeline, selectedItemId,
                                                         currentTime, FreshId))
               ELSE Done("split", FALSE)
            /\ Effects(project', currentTime)
    /\ UNCHANGED << currentTime, draggingItem, draggingAssetId, dragType, resizingItem >>
    /\ UNCHANGED << isPlaying, clock, pendingTime, playStart >>

(***************************************************************************)
(* handleDelete                                                            *)
(***************************************************************************)
RemoveItem(items, id) == SelectSeq(items, LAMBDA i : i.id /= id)

\* the updater of handleDelete: prev.timeline.map(t => ({ ...t, items:
\* t.items.filter(...) }))
DeleteUpdater(tl, id) ==
    MapAllTracks(tl, [k \in 1..Len(tl) |-> [tl[k] EXCEPT !.items = RemoveItem(@, id)]])

handleDelete ==
    /\ Idle
    /\ dragType = "none"
    /\ selectedItemId /= NoId
    /\ project' = [project EXCEPT !.timeline =
                     [k \in 1..Len(@) |-> [@[k] EXCEPT !.items = RemoveItem(@, selectedItemId)]]]
    /\ selectedItemId' = NoId
    /\ Edited("delete", TRUE)
    /\ previous' = Observed(project.timeline, DeleteUpdater(project.timeline, selectedItemId))
    /\ UNCHANGED << currentTime, draggingItem, draggingAssetId, dragType, resizingItem >>
    /\ Effects(project', currentTime)
    /\ UNCHANGED << isPlaying, clock, pendingTime, playStart >>

(***************************************************************************)
(* handleTrackDrop: a dragged timeline item is moved, a dragged library    *)
(* asset is added to the track it is dropped on.                           *)
(***************************************************************************)
\* the updater passed to setProject for a dragged timeline item
MoveItem(proj, drag, targetTrackId, dropStartTime) ==
    LET sourceTrack == FindTrack(proj.timeline, drag.trackId)
        item == FindItem(sourceTrack.items, drag.itemId)
        targetTrack == FindTrack(proj.timeline, targetTrackId)
    IN IF item = NoItem THEN proj
       ELSE IF sourceTrack.type /= targetTrack.type THEN proj
       ELSE [proj EXCEPT !.timeline =
               [k \in 1..Len(@) |->
                  IF @[k].id = drag.trackId /\ @[k].id = targetTrackId
                  THEN [@[k] EXCEPT !.items =
                          [j \in 1..Len(@) |->
                             IF @[j].id = item.id
                             THEN [@[j] EXCEPT !.startTime = dropStartTime]
                             ELSE @[j]]]
                  ELSE IF @[k].id = drag.trackId
                  THEN [@[k] EXCEPT !.items = RemoveItem(@, item.id)]
                  ELSE IF @[k].id = targetTrackId
                  THEN [@[k] EXCEPT !.items =
                          Append(@, [item EXCEPT !.startTime = dropStartTime])]
                  ELSE @[k]]]

\* the updater returns prev itself: no new state, no effect runs
MoveRejected(proj, drag, targetTrackId) ==
    \/ FindItem(FindTrack(proj.timeline, drag.trackId).items, drag.itemId) = NoItem
    \/ FindTrack(proj.timeline, drag.trackId).type /= FindTrack(proj.timeline, targetTrackId).type

\* the objects of the move: prev itself when the move is rejected, else a new
\* object for the source track and for the target track
MoveUpdater(proj, drag, targetTrackId, dropStartTime) ==
    IF MoveRejected(proj, drag, targetTrackId)
    THEN ReturnPrev(proj.timeline)
    ELSE MapTracks(proj.timeline,
                   MoveItem(proj, drag, targetTrackId, dropStartTime).timeline,
                   {k \in 1..Len(proj.timeline) :
                      proj.timeline[k].id \in {drag.trackId, targetTrackId}})

DropChangesProject(targetTrackId) ==
    IF dragType = "timeline-item" /\ draggingItem /= NoDrag
    THEN ~MoveRejected(project, draggingItem, targetTrackId)
    ELSE /\ dragType = "library-asset"
         /\ draggingAssetId /= NoId
         /\ FindAsset(project.assets, draggingAssetId) /= NoAsset

handleTrackDrop(targetTrackId, dropStartTime) ==
    /\ Idle
    /\ dragType /= "none"
    /\ IF dragType = "timeline-item" /\ draggingItem /= NoDrag
       THEN /\ project' = MoveItem(project, draggingItem, targetTrackId, dropStartTime)
            /\ selectedItemId' = selectedItemId
            /\ Edited("move", ~MoveRejected(project, draggingItem, targetTrackId))
            /\ previous' = Observed(project.timeline,
                                    MoveUpdater(project, draggingItem, targetTrackId,
                                                dropStartTime))
       ELSE IF dragType = "library-asset" /\ draggingAssetId /= NoId
                /\ FindAsset(project.assets, draggingAssetId) /= NoAsset
       THEN /\ Len(AllItems(project.timeline)) < MaxItems
            /\ project' = AddToTimeline(project, FindAsset(project.assets, draggingAssetId),
                                        targetTrackId, dropStartTime, FreshId)
            /\ selectedItemId' = FreshId
            /\ Edited("drop", TRUE)
            /\ previous' = Observed(project.timeline,
                                    AddUpdater(project,
                                               FindAsset(project.assets, draggingAssetId),
                                               targetTrackId, dropStartTime, FreshId))
       ELSE /\ UNCHANGED << project, selectedItemId >>
            /\ Done("drop", FALSE)
    /\ draggingItem' = NoDrag
    /\ draggingAssetId' = NoId
    /\ dragType' = "none"
    /\ UNCHANGED << currentTime, resizingItem >>
    /\ IF DropChangesProject(targetTrackId)
       THEN Effects(project', currentTime)
       ELSE UNCHANGED << audioElements, startTimeRef, raf >>
    /\ UNCHANGED << isPlaying, clock, pendingTime, playStart >>

(***************************************************************************)
(* Clock and transport.                                                    *)
(***************************************************************************)
\* setCurrentTime from a click on the ruler, a skip button or an arrow key
SetCurrentTime(t, name) ==
    /\ Idle
    /\ PointerFree
    /\ currentTime' = t
    /\ Done(name, t /= currentTime)
    /\ IF t /= currentTime
       THEN /\ PlaybackEffect(isPlaying, t, project, audioElements)
            /\ playStart' = IF isPlaying THEN [playStart EXCEPT !.seeked = TRUE]
                            ELSE playStart
       ELSE UNCHANGED << audioElements, startTimeRef, raf, playStart >>
    /\ UNCHANGED << project, selectedItemId, draggingItem, draggingAssetId, dragType,
                    resizingItem, isPlaying, clock, pendingTime >>

updatePlayheadPosition(t) == SetCurrentTime(Max(0, t), "seek")

Nudge(d) ==
    /\ Max(0, currentTime + d) <= MaxTime
    /\ SetCurrentTime(Max(0, currentTime + d), "nudge")

\* setIsPlaying(!isPlaying) and the playback effect of the commit
TogglePlay ==
    /\ Idle
    /\ isPlaying' = ~isPlaying
    /\ PlaybackEffect(~isPlaying, currentTime, project, audioElements)
    /\ playStart' = IF ~isPlaying
                    THEN [wall |-> clock, logical |-> currentTime, seeked |-> FALSE]
                    ELSE playStart
    /\ Done("togglePlay", TRUE)
    /\ UNCHANGED << project, currentTime, selectedItemId, draggingItem, draggingAssetId,
                    dragType, resizingItem, clock, pendingTime >>

\* performance.now() advances; a playing element advances with it.  The clock
\* is read only while playing, so it is left to stand while stopped.
Tick ==
    /\ isPlaying
    /\ clock < MaxClock
    /\ pendingTime /= NoTime => clock - (pendingTime + startTimeRef) < MaxDelay
    /\ clock' = clock + 1
    /\ audioElements' = [id \in DOMAIN audioElements |->
                           IF audioElements[id].paused THEN audioElements[id]
                           ELSE [audioElements[id] EXCEPT !.position = @ + 1]]
    /\ Done("tick", TRUE)
    /\ UNCHANGED << project, currentTime, selectedItemId, draggingItem, draggingAssetId,
                    dragType, resizingItem, isPlaying, startTimeRef, raf, pendingTime,
                    playStart >>

\* the requestAnimationFrame callback update(now): the new playhead is queued
\* as a state update, syncAudio runs with the values of the render that
\* created the callback
Update ==
    /\ isPlaying
    /\ raf
    /\ Idle
    /\ pendingTime' = IF clock - startTimeRef /= currentTime
                      THEN clock - startTimeRef ELSE NoTime
    /\ audioElements' = SyncAudio(audioElements, project.timeline, TRUE, currentTime)
    /\ op' = [name |-> "frame", applied |-> TRUE,
              arg |-> Cardinality(Drifted(audioElements, project.timeline, currentTime))]
    /\ edits' = edits
    /\ UNCHANGED canvasVars
    /\ UNCHANGED exportVars
    /\ UNCHANGED serviceVars
    /\ UNCHANGED saveVars
    /\ UNCHANGED previous
    /\ UNCHANGED << project, currentTime, selectedItemId, draggingItem, draggingAssetId,
                    dragType, resizingItem, isPlaying, clock, startTimeRef, raf, playStart >>

\* the render for the queued playhead, and the playback effect re-run for it
Render ==
    /\ pendingTime /= NoTime
    /\ currentTime' = pendingTime
    /\ pendingTime' = NoTime
    /\ PlaybackEffect(isPlaying, pendingTime, project, audioElements)
    /\ Done("render", TRUE)
    /\ UNCHANGED << project, selectedItemId, draggingItem, draggingAssetId, dragType,
                    resizingItem, isPlaying, clock, playStart >>

(***************************************************************************)
(* VideoCanvas: the effect on [currentTime, timeline, assets, isPlaying]   *)
(* that draws the active visual items.  Opacities are percentages; the     *)
(* alpha an item is drawn with is kept in millionths (opacity x incoming   *)
(* progress x outgoing progress, each a percentage).                       *)
(***************************************************************************)
DefaultTransitionDuration == 5

\* the { item, track } pairs of the video and text tracks, in track order
RECURSIVE VisualEntries(_, _)
VisualEntries(tl, k) ==
    IF k > Len(tl) THEN << >>
    ELSE (IF tl[k].type \in {"video", "text"}
          THEN [j \in 1..Len(tl[k].items) |-> [item |-> tl[k].items[j], track |-> tl[k].id]]
          ELSE << >>) \o VisualEntries(tl, k + 1)

\* Array.prototype.sort by layer without the comparison
UnsortedByLayer(entries) == entries

\* Array.prototype.sort with (a.item.layer || 0) - (b.item.layer || 0): stable
RECURSIVE SortByLayer(_)
SortByLayer(entries) ==
    IF entries = << >> THEN << >>
    ELSE LET last == entries[Len(entries)]
             front == SortByLayer(SubSeq(entries, 1, Len(entries) - 1))
         IN  SelectSeq(front, LAMBDA e : e.item.layer <= last.item.layer)
                \o << last >>
                \o SelectSeq(front, LAMBDA e : e.item.layer > last.item.layer)

ActiveItems(tl, time) ==
    SortByLayer(SelectSeq(VisualEntries(tl, 1), LAMBDA e : IsInside(time, e.item)))

\* item.opacity !== undefined ? item.opacity : 1
ItemOpacity(item) == IF "opacity" \in DOMAIN item THEN item.opacity ELSE 100

\* item.transitionDuration || 0.5
TransitionDuration(item) ==
    IF "transitionDuration" \in DOMAIN item /\ item.transitionDuration /= 0
    THEN item.transitionDuration
    ELSE DefaultTransitionDuration

Fades(transition) == transition \in {"fade", "dissolve"}

\* the factor (a percentage) of the incoming transition at itemTime
ProgressIn(item, itemTime) ==
    IF /\ "transitionIn" \in DOMAIN item
       /\ itemTime < TransitionDuration(item)
       /\ Fades(item.transitionIn)
    THEN (100 * itemTime) \div TransitionDuration(item)
    ELSE 100

\* the factor (a percentage) of the outgoing transition at itemTime
ProgressOut(item, itemTime) ==
    IF /\ "transitionOut" \in DOMAIN item
       /\ item.duration - itemTime < TransitionDuration(item)
       /\ Fades(item.transitionOut)
    THEN (100 * (item.duration - itemTime)) \div TransitionDuration(item)
    ELSE 100

\* ctx.globalAlpha ignoring the transitions
GlobalAlphaWithoutTransitions(item, itemTime) == ItemOpacity(item) * 100 * 100

\* ctx.globalAlpha for an item, in millionths
GlobalAlpha(item, itemTime) ==
    ItemOpacity(item) * ProgressIn(item, itemTime) * ProgressOut(item, itemTime)

NewVideo == [paused |-> TRUE, position |-> 0]

\* the video branch of the pass for one active video item
SyncVideo(video, playing, itemTime) ==
    LET started == IF playing /\ video.paused
                   THEN [paused |-> FALSE, position |-> itemTime]
                   ELSE IF ~playing /\ ~video.paused
                        THEN [video EXCEPT !.paused = TRUE]
                        ELSE video
    IN  IF Abs(started.position - itemTime) > DriftTolerance
        THEN [started EXCEPT !.position = itemTime]
        ELSE started

\* the active entries whose asset is found: the items the pass draws, in order
Drawn(proj, time) ==
    SelectSeq(ActiveItems(proj.timeline, time),
              LAMBDA e : FindAsset(proj.assets, e.item.assetId) /= NoAsset)

\* one run of the effect
VideoCanvas(time, proj, playing) ==
    LET drawn == Drawn(proj, time)
        videos == {drawn[k].item.id : k \in
                     {j \in 1..Len(drawn) :
                         FindAsset(proj.assets, drawn[j].item.assetId).type = "video"}}
    IN  /\ canvas' = [k \in 1..Len(drawn) |->
                        [id |-> drawn[k].item.id,
                         alpha |-> GlobalAlpha(drawn[k].item, time - drawn[k].item.startTime)]]
        /\ videoElements' =
              [id \in DOMAIN videoElements \cup videos |->
                  IF id \in videos
                  THEN SyncVideo(IF id \in DOMAIN videoElements
                                 THEN videoElements[id] ELSE NewVideo,
                                 playing,
                                 time - FindItem(AllItems(proj.timeline), id).startTime)
                  ELSE videoElements[id]]

(***************************************************************************)
(* Specifications.                                                         *)
(***************************************************************************)
Init ==
    /\ project = [assets |-> << >>, timeline |-> InitialTimeline]
    /\ currentTime = 0
    /\ selectedItemId = NoId
    /\ draggingItem = NoDrag
    /\ draggingAssetId = NoId
    /\ dragType = "none"
    /\ resizingItem = NoResize
    /\ audioElements = << >>
    /\ isPlaying = FALSE
    /\ clock = 0
    /\ startTimeRef = 0
    /\ raf = FALSE
    /\ pendingTime = NoTime
    /\ playStart = NoPlay
    /\ op = NoOp
    /\ edits = 0
    /\ videoElements = << >>
    /\ canvas = << >>
    /\ filterComplex = NoExport
    /\ job = NewJob
    /\ request = NoRequest
    /\ inflight = {}
    /\ tmpFile = "none"
    /\ user = TRUE
    /\ saveTimeoutRef = AutoSaveDelay
    /\ unsaved = NoTime
    /\ cloud = NothingSaved
    /\ ffmpegService = [loaded |-> FALSE, loading |-> FALSE]
    /\ callers = [c \in LoadCallers |-> "idle"]
    /\ previous = Observed(InitialTimeline, ReturnPrev(InitialTimeline))

\* the editor with the transport stopped
Next ==
    \/ \E kind \in UploadKinds : ProcessFiles(kind)
    \/ \E k \in 1..MaxAssets : AssetClick(k)
    \/ addTextToTimeline
    \/ \E id \in 1..(MaxItems + 1) : ItemClick(id)
    \/ PanelClose
    \/ \E k \in 1..MaxAssets : DragStartAsset(k)
    \/ \E id \in 1..(MaxItems + 1) : DragStartItem(id)
    \/ \E t \in TrackIds, d \in TimelineTimes : handleTrackDrop(t, d)
    \/ \E id \in 1..(MaxItems + 1), side \in {"start", "end"} : handleResizeStart(id, side)
    \/ \E p \in PointerTimes : handleMouseMove(p)
    \/ handleMouseUp
    \/ PanelInput
    \/ handleSplit
    \/ handleDelete
    \/ \E t \in TimelineTimes : updatePlayheadPosition(t)
    \/ \E d \in {-1, 1} : Nudge(d)

Spec == Init /\ [][Next]_vars

\* the transport running over a timeline of audio items
PlayNext ==
    \/ ProcessFiles("audio")
    \/ \E k \in 1..MaxAssets : AssetClick(k)
    \/ handleDelete
    \/ \E t \in TimelineTimes : updatePlayheadPosition(t)
    \/ TogglePlay
    \/ Tick
    \/ Update
    \/ Render

SpecPlay == Init /\ [][PlayNext]_vars

(***************************************************************************)
(* The canvas on its own: a saved project is loaded, then the props of     *)
(* VideoCanvas change (the playhead, isPlaying, the timeline by a delete), *)
(* each change followed by one run of its effect.                          *)
(***************************************************************************)
CanvasTimes == {0, 2, 30, 43, 48, 50}

CanvasAssets ==
    << [id |-> 1, type |-> "video", duration |-> 50],
       [id |-> 2, type |-> "image", duration |-> 0],
       [id |-> 3, type |-> "text", duration |-> 50] >>

\* the optional attributes the properties panel writes into an item
CanvasStyles ==
    { << >>,
      [opacity |-> 50],
      [transitionIn |-> "fade"],
      [transitionOut |-> "dissolve", transitionDuration |-> 10],
      [transitionIn |-> "wipe", transitionOut |-> "slide"],
      [transitionIn |-> "fade", transitionOut |-> "fade", opacity |-> 50],
      [opacity |-> 100, transitionIn |-> "none", transitionOut |-> "none",
       transitionDuration |-> 5] }

CanvasLayers == {0, 1}

VideoItems ==
    { style @@ [id |-> 1, assetId |-> 1, startTime |-> 0, duration |-> 50, layer |-> l] :
        style \in CanvasStyles, l \in CanvasLayers }

ImageItems ==
    { [id |-> 2, assetId |-> 2, startTime |-> 0, duration |-> 50, layer |-> l] :
        l \in CanvasLayers }

TextItems ==
    { [id |-> 3, assetId |-> 3, startTime |-> 20, duration |-> 20, layer |-> l] :
        l \in CanvasLayers }

\* saved projects: a video item, with or without an image item before or after
\* it on the same track, with or without a text item over them
SavedProjects ==
    { [assets |-> CanvasAssets,
       timeline |-> [InitialTimeline EXCEPT ![1].items = v, ![3].items = t]] :
        v \in { << a >> : a \in VideoItems }
               \cup { << a, b >> : a \in VideoItems, b \in ImageItems }
               \cup { << b, a >> : a \in VideoItems, b \in ImageItems },
        t \in { << >> } \cup { << c >> : c \in TextItems } }

\* what a change of the props leaves alone
CanvasParentUnchanged ==
    UNCHANGED << selectedItemId, draggingItem, draggingAssetId, dragType, resizingItem,
                 audioElements, startTimeRef, raf, pendingTime, playStart, edits,
                 filterComplex, previous >>
    /\ UNCHANGED serviceVars
    /\ UNCHANGED saveVars

handleLoadProjects(saved) ==
    /\ project.assets = << >>
    /\ project' = saved
    /\ VideoCanvas(currentTime, saved, isPlaying)
    /\ op' = [name |-> "load", applied |-> TRUE, arg |-> 0]
    /\ UNCHANGED << currentTime, isPlaying, clock >>
    /\ CanvasParentUnchanged

\* the playhead prop changes
PropCurrentTime(t) ==
    /\ t /= currentTime
    /\ currentTime' = t
    /\ VideoCanvas(t, project, isPlaying)
    /\ op' = [name |-> "seek", applied |-> TRUE, arg |-> 0]
    /\ UNCHANGED << project, isPlaying, clock >>
    /\ CanvasParentUnchanged

\* the isPlaying prop changes
PropIsPlaying ==
    /\ isPlaying' = ~isPlaying
    /\ VideoCanvas(currentTime, project, ~isPlaying)
    /\ op' = [name |-> "togglePlay", applied |-> TRUE, arg |-> 0]
    /\ UNCHANGED << project, currentTime, clock >>
    /\ CanvasParentUnchanged

\* the timeline prop changes: a video item has been deleted
PropTimeline(id) ==
    /\ id \in ItemIds(project.timeline)
    /\ FindAsset(project.assets, FindItem(AllItems(project.timeline), id).assetId).type = "video"
    /\ project' = [project EXCEPT !.timeline =
                     [k \in 1..Len(@) |-> [@[k] EXCEPT !.items = RemoveItem(@, id)]]]
    /\ VideoCanvas(currentTime, project', isPlaying)
    /\ op' = [name |-> "delete", applied |-> TRUE, arg |-> id]
    /\ UNCHANGED << currentTime, isPlaying, clock >>
    /\ CanvasParentUnchanged

\* time passes: a playing video element advances
VideoTick ==
    /\ clock < MaxVideoTicks
    /\ \E id \in DOMAIN videoElements : ~videoElements[id].paused
    /\ clock' = clock + 1
    /\ videoElements' = [id \in DOMAIN videoElements |->
                           IF videoElements[id].paused THEN videoElements[id]
                           ELSE [videoElements[id] EXCEPT !.position = @ + 1]]
    /\ op' = [name |-> "tick", applied |-> TRUE, arg |-> 0]
    /\ UNCHANGED << project, currentTime, isPlaying, canvas >>
    /\ CanvasParentUnchanged

CanvasNext ==
    \/ \E saved \in SavedProjects : handleLoadProjects(saved)
    \/ \E t \in CanvasTimes : PropCurrentTime(t)
    \/ PropIsPlaying
    \/ \E id \in 1..3 : PropTimeline(id)
    \/ VideoTick

SpecCanvas == Init /\ [][CanvasNext]_vars

(***************************************************************************)
(* FFmpegService.load(), called by several callers at once.  A call runs   *)
(* without interruption up to its first await: the checks of loaded and    *)
(* loading and the assignment loading = true are one step.                 *)
(***************************************************************************)
\* what load() leaves alone
LoadUnchanged ==
    UNCHANGED << editVars, transportVars, edits, canvasVars, exportVars, saveVars, jobVars >>

\* load() is called: return if loaded, wait if loading, else start loading
Call(c) ==
    /\ callers[c] = "idle"
    /\ IF ffmpegService.loaded
       THEN /\ callers' = [callers EXCEPT ![c] = "returned"]
            /\ ffmpegService' = ffmpegService
       ELSE IF ffmpegService.loading
            THEN /\ callers' = [callers EXCEPT ![c] = "waiting"]
                 /\ ffmpegService' = ffmpegService
            ELSE /\ callers' = [callers EXCEPT ![c] = "core"]
                 /\ ffmpegService' = [ffmpegService EXCEPT !.loading = TRUE]
    /\ op' = [name |-> "ffmpegLoad", applied |-> ~ffmpegService.loaded, arg |-> c]
    /\ LoadUnchanged

\* while (this.loading) await 100 ms; return
Poll(c) ==
    /\ callers[c] = "waiting"
    /\ callers' = [callers EXCEPT ![c] = IF ffmpegService.loading THEN "waiting"
                                          ELSE "returned"]
    /\ op' = [name |-> "poll", applied |-> ~ffmpegService.loading, arg |-> c]
    /\ UNCHANGED ffmpegService
    /\ LoadUnchanged

\* await this.ffmpeg.load(...) resolves: loaded = true; finally loading = false
CoreLoaded(c) ==
    /\ callers[c] = "core"
    /\ ffmpegService' = [loaded |-> TRUE, loading |-> FALSE]
    /\ callers' = [callers EXCEPT ![c] = "returned"]
    /\ op' = [name |-> "loaded", applied |-> TRUE, arg |-> c]
    /\ LoadUnchanged

\* it rejects: 'Failed to initialize video processor'; finally loading = false
CoreFailed(c) ==
    /\ callers[c] = "core"
    /\ ffmpegService' = [ffmpegService EXCEPT !.loading = FALSE]
    /\ callers' = [callers EXCEPT ![c] = "threw"]
    /\ op' = [name |-> "loadFailed", applied |-> TRUE, arg |-> c]
    /\ LoadUnchanged

\* the caller is done with the outcome of its call
Settle(c) ==
    /\ callers[c] \in {"returned", "threw"}
    /\ callers' = [callers EXCEPT ![c] = "idle"]
    /\ op' = [name |-> "settle", applied |-> TRUE, arg |-> c]
    /\ UNCHANGED ffmpegService
    /\ LoadUnchanged

LoadNext ==
    \/ \E c \in LoadCallers : Call(c)
    \/ \E c \in LoadCallers : Poll(c)
    \/ \E c \in LoadCallers : CoreLoaded(c)
    \/ \E c \in LoadCallers : CoreFailed(c)
    \/ \E c \in LoadCallers : Settle(c)

SpecLoad == Init /\ [][LoadNext]_vars

(***************************************************************************)
(* Export: the edge function (serve) and FFmpegService.exportVideo lower   *)
(* the project into an ffmpeg filter graph.  Of each node the model keeps  *)
(* the item it was built from, its trim, its timing (tpad seconds in units *)
(* of 0.1 s, adelay in milliseconds) and, for audio, the volume filter as  *)
(* a percentage (100 when the filter is left out).                         *)
(***************************************************************************)
FloorDuration == 100
MillisPerUnit == 100

\* the { item, track } pairs of the tracks of one type, in track order
RECURSIVE EntriesOf(_, _, _)
EntriesOf(tl, type, k) ==
    IF k > Len(tl) THEN << >>
    ELSE (IF tl[k].type = type
          THEN [j \in 1..Len(tl[k].items) |-> [item |-> tl[k].items[j], track |-> tl[k].id]]
          ELSE << >>) \o EntriesOf(tl, type, k + 1)

RECURSIVE MaxEnd(_, _)
MaxEnd(items, k) ==
    IF k > Len(items) THEN 0
    ELSE Max(items[k].startTime + items[k].duration, MaxEnd(items, k + 1))

\* Math.max(...ends, 10)
MaxDuration(tl) == Max(MaxEnd(AllItems(tl), 1), FloorDuration)

\* the items of the video tracks whose asset is a video or an image, by layer
AllVideoItems(proj) ==
    SortByLayer(SelectSeq(EntriesOf(proj.timeline, "video", 1),
                          LAMBDA e : FindAsset(proj.assets, e.item.assetId).type
                                        \in {"video", "image"}))

\* the items of the audio tracks whose asset is audio
AllAudioItems(proj) ==
    SelectSeq(EntriesOf(proj.timeline, "audio", 1),
              LAMBDA e : FindAsset(proj.assets, e.item.assetId).type = "audio")

VideoNode(e) ==
    [id |-> e.item.id, trim |-> e.item.duration, offset |-> e.item.startTime]

\* buildTransitionFilter: the filters of the chain it returns, by name
BuildTransitionFilter(type, direction) ==
    CASE type = "fade" -> << "fade" >>
      [] type = "dissolve" -> << "fade" >>
      [] type = "wipe" -> << "crop" >>
      [] type = "slide" -> IF direction = "in" THEN << "fade", "zoompan" >> ELSE << "fade" >>
      [] OTHER -> << >>

NoFade == [st |-> 0, d |-> 0]

\* the fade filter (start and length) a transition of the item puts into its chain
NodeFade(item, field, direction) ==
    IF /\ field \in DOMAIN item
       /\ item[field] /= "none"
       /\ \E k \in DOMAIN BuildTransitionFilter(item[field], direction) :
             BuildTransitionFilter(item[field], direction)[k] = "fade"
    THEN [st |-> IF direction = "in" THEN 0 ELSE item.duration - TransitionDuration(item),
          d |-> TransitionDuration(item)]
    ELSE NoFade

\* colorchannelmixer=aa=opacity when opacity < 1
NodeOpacity(item) == IF ItemOpacity(item) < 100 THEN ItemOpacity(item) ELSE 100

\* the chain serve builds for visual item i (0-based), reading input i
ServeVideoNode(e, i) ==
    VideoNode(e) @@ [input |-> i,
                     opacity |-> NodeOpacity(e.item),
                     fadeIn |-> NodeFade(e.item, "transitionIn", "in"),
                     fadeOut |-> NodeFade(e.item, "transitionOut", "out")]

\* the chain FFmpegService.exportVideo builds: opacity, no transitions
ClientVideoNode(e, i) ==
    VideoNode(e) @@ [input |-> i,
                     opacity |-> NodeOpacity(e.item),
                     fadeIn |-> NoFade,
                     fadeOut |-> NoFade]

AudioNode(e, volume) ==
    [id |-> e.item.id, trim |-> e.item.duration, volume |-> volume,
     delay |-> e.item.startTime * MillisPerUnit]

\* serve: item.volume !== undefined ? item.volume : (track.volume || 1)
ServeVolume(item, track) ==
    IF "volume" \in DOMAIN item THEN item.volume
    ELSE IF track.volume /= 0 THEN track.volume ELSE 100

\* the video files among the visual items of serve, with their input index
VideoFileIndexes(proj) ==
    SelectSeq([k \in 1..Len(AllVideoItems(proj)) |-> k],
              LAMBDA k : FindAsset(proj.assets, AllVideoItems(proj)[k].item.assetId).type
                            = "video")

\* the audio segments of serve: the audio items, each reading the input added
\* for it after the visual inputs, then the audio of the video files, each
\* reading the input of its visual node
ServeAudio(proj) ==
    [k \in 1..Len(AllAudioItems(proj)) |->
        AudioNode(AllAudioItems(proj)[k],
                  ServeVolume(AllAudioItems(proj)[k].item,
                              FindTrack(proj.timeline, AllAudioItems(proj)[k].track)))
          @@ [input |-> Len(AllVideoItems(proj)) + k - 1]]
    \o
    [j \in 1..Len(VideoFileIndexes(proj)) |->
        AudioNode(AllVideoItems(proj)[VideoFileIndexes(proj)[j]],
                  ItemGain(AllVideoItems(proj)[VideoFileIndexes(proj)[j]].item))
          @@ [input |-> VideoFileIndexes(proj)[j] - 1]]

\* the audio segments of FFmpegService.exportVideo: inputIdx = videoItems.length + i
ClientAudio(proj) ==
    [k \in 1..Len(AllAudioItems(proj)) |->
        AudioNode(AllAudioItems(proj)[k], ItemGain(AllAudioItems(proj)[k].item))
          @@ [input |-> Len(AllVideoItems(proj)) + k - 1]]

\* the tokens of a filter graph: a link label [name n], a filter, a separator
Label(name, n) == [t |-> "label", name |-> name, n |-> n]
Filter(name) == [t |-> "filter", name |-> name, n |-> 0]
Separator == [t |-> "sep", name |-> ";", n |-> 0]

\* the overlay chain over n visual labels v0 .. v(n-1), from the second on
RECURSIVE OverlaySteps(_, _)
OverlaySteps(n, i) ==
    IF i > n - 1 THEN << >>
    ELSE << Label("v", i), Filter("overlay") >>
            \o (IF i < n - 1
                THEN << Label("tmp", i), Separator, Label("tmp", i) >>
                ELSE << >>)
            \o OverlaySteps(n, i + 1)

\* if (labels.length > 0) { [v0] ... [vout] }
OverlayChain(n) ==
    IF n > 0
    THEN << Label("v", 0) >> \o OverlaySteps(n, 1) \o << Label("vout", 0) >>
    ELSE << >>

\* the inputs of the command in the order of their -i options: the visual
\* items, the audio items, then the generated sources added with the mapping
Inputs(proj) ==
    [k \in 1..Len(AllVideoItems(proj)) |->
        [src |-> "asset", id |-> AllVideoItems(proj)[k].item.id]]
    \o [k \in 1..Len(AllAudioItems(proj)) |->
        [src |-> "asset", id |-> AllAudioItems(proj)[k].item.id]]

ColorSource == [src |-> "color", id |-> 0]
SilentSource == [src |-> "anullsrc", id |-> 0]

\* -map "[vout]", or the black background and -map 0:v
VideoMap(n) ==
    IF n > 0 THEN [label |-> "vout", input |-> NoInput, added |-> << >>]
    ELSE [label |-> "", input |-> 0, added |-> << ColorSource >>]

\* -map "[aout]", or the silent source and -map 1:a
AudioMap(n) ==
    IF n > 0 THEN [label |-> "aout", input |-> NoInput, added |-> << >>]
    ELSE [label |-> "", input |-> 1, added |-> << SilentSource >>]

\* the command of a builder from its nodes
Command(builder, proj, video, audio) ==
    [builder |-> builder,
     maxDuration |-> MaxDuration(proj.timeline),
     video |-> video,
     audio |-> audio,
     overlay |-> OverlayChain(Len(video)),
     inputs |-> Inputs(proj) \o VideoMap(Len(video)).added \o AudioMap(Len(audio)).added,
     vmap |-> [label |-> VideoMap(Len(video)).label, input |-> VideoMap(Len(video)).input],
     amap |-> [label |-> AudioMap(Len(audio)).label, input |-> AudioMap(Len(audio)).input]]

\* the edge function
serve ==
    /\ filterComplex' =
          Command("serve", project,
                  [k \in 1..Len(AllVideoItems(project)) |->
                      ServeVideoNode(AllVideoItems(project)[k], k - 1)],
                  ServeAudio(project))
    /\ op' = [name |-> "serve", applied |-> TRUE, arg |-> 0]
    /\ UNCHANGED << project, currentTime, selectedItemId, draggingItem, draggingAssetId,
                    dragType, resizingItem, audioElements, isPlaying, clock, startTimeRef,
                    raf, pendingTime, playStart, edits, videoElements, canvas,
                    previous >>
    /\ UNCHANGED serviceVars
    /\ UNCHANGED saveVars

\* FFmpegService.exportVideo, in the browser
exportVideo ==
    /\ ffmpegService.loaded
    /\ filterComplex' =
          Command("exportVideo", project,
                  [k \in 1..Len(AllVideoItems(project)) |->
                      ClientVideoNode(AllVideoItems(project)[k], k - 1)],
                  ClientAudio(project))
    /\ op' = [name |-> "exportVideo", applied |-> TRUE, arg |-> 0]
    /\ UNCHANGED << project, currentTime, selectedItemId, draggingItem, draggingAssetId,
                    dragType, resizingItem, audioElements, isPlaying, clock, startTimeRef,
                    raf, pendingTime, playStart, edits, videoElements, canvas,
                    previous >>
    /\ UNCHANGED serviceVars
    /\ UNCHANGED saveVars

ExportAssets ==
    CanvasAssets \o << [id |-> 4, type |-> "audio", duration |-> 20] >>

\* the attributes the properties panel writes into a video item
ExportStyles ==
    { << >>,
      [opacity |-> 50, transitionIn |-> "fade"],
      [transitionIn |-> "slide"],
      [transitionOut |-> "dissolve", transitionDuration |-> 10] }

ExportVideoItems ==
    { style @@ [id |-> 1, assetId |-> 1, startTime |-> s, duration |-> d, layer |-> 0] :
        style \in ExportStyles, s \in {0, 20}, d \in {50, 120} }

ExportImageItem == [id |-> 2, assetId |-> 2, startTime |-> 0, duration |-> 50, layer |-> 1]

ExportTextItem == [id |-> 3, assetId |-> 3, startTime |-> 20, duration |-> 20, layer |-> 0]

\* an image on the second video track
ExportOverlayItem == [id |-> 5, assetId |-> 2, startTime |-> 10, duration |-> 30, layer |-> 0]

\* the item volume the properties panel writes, or none
ExportAudioItems ==
    { style @@ [id |-> 4, assetId |-> 4, startTime |-> s, duration |-> 20, layer |-> 0] :
        style \in { << >>, [volume |-> 0], [volume |-> 80] }, s \in {0, 20} }

\* the track volume slider
TrackVolumes == {0, 50, 100}

\* saved projects: any of a video, an image, a text and an audio item, and a
\* volume of the audio track
ExportProjects ==
    { [assets |-> ExportAssets,
       timeline |-> [InitialTimeline EXCEPT ![1].items = v, ![2].items = w,
                                            ![3].items = t,
                                            ![4].items = a, ![4].volume = tv]] :
        v \in { << >> } \cup { << x >> : x \in ExportVideoItems }
                       \cup { << ExportImageItem, x >> : x \in ExportVideoItems },
        w \in { << >>, << ExportOverlayItem >> },
        t \in { << >>, << ExportTextItem >> },
        a \in { << >> } \cup { << x >> : x \in ExportAudioItems },
        tv \in TrackVolumes }

ExportNext ==
    \/ \E saved \in ExportProjects : handleLoadProjects(saved)
    \/ serve
    \/ Call(1)
    \/ CoreLoaded(1)
    \/ exportVideo

SpecExport == Init /\ [][ExportNext]_vars

(***************************************************************************)
(* The export job: one request to the edge function for one row of         *)
(* export_jobs.  The handler runs from await to await; its own updates of  *)
(* the row are awaited, those of the encoder's progress callback are not   *)
(* (executeFFmpeg calls onProgress without awaiting the promise it         *)
(* returns), so they reach the table at any later moment and in any order. *)
(***************************************************************************)
\* the percentages the encoder reports (totalSeconds / totalDuration * 100)
EncoderPercents == {0, 50, 100}

\* Math.round(70 + progress * 0.2)
MappedProgress(progress) == (700 + 2 * progress + 5) \div 10

\* what the job handler leaves alone
StudioUnchanged ==
    UNCHANGED << editVars, transportVars, edits, canvasVars, exportVars, saveVars,
                 loadVars >>

\* .update({ progress }).eq('id', jobId)
UpdateProgress(p) == job' = [job EXCEPT !.progress = p]

\* the catch block: req.json() is read a second time; a body that has been
\* read already rejects, the jobId is then undefined and the row is not updated
Catch(message) ==
    /\ job' = IF request.bodyUsed THEN job
              ELSE [job EXCEPT !.status = "failed",
                               !.error_message = IF message /= "" THEN message
                                                 ELSE "Unknown error"]
    /\ request' = [request EXCEPT !.pc = "returned", !.error = message]

\* the request arrives: its body is read, the job looked up and set to processing
Accept(found) ==
    /\ request.pc = "none"
    /\ IF found
       THEN /\ job' = [job EXCEPT !.status = "processing", !.progress = 10]
            /\ request' = [request EXCEPT !.pc = "project", !.bodyUsed = TRUE]
       ELSE /\ job' = job
            /\ request' = [pc |-> "returned", bodyUsed |-> TRUE, error |-> "Job not found"]
    /\ op' = [name |-> "accept", applied |-> found, arg |-> 0]
    /\ UNCHANGED << inflight, tmpFile >>
    /\ StudioUnchanged

\* the project is looked up
LoadProject(found) ==
    /\ request.pc = "project"
    /\ IF found
       THEN /\ UpdateProgress(20)
            /\ request' = [request EXCEPT !.pc = "video"]
       ELSE Catch("Project not found")
    /\ op' = [name |-> "project", applied |-> found, arg |-> 0]
    /\ UNCHANGED << inflight, tmpFile >>
    /\ StudioUnchanged

\* the filter graph is built: the video chains, the audio chains, the command
Build ==
    /\ request.pc \in {"video", "audio", "command"}
    /\ CASE request.pc = "video" ->
               UpdateProgress(40) /\ request' = [request EXCEPT !.pc = "audio"]
         [] request.pc = "audio" ->
               UpdateProgress(60) /\ request' = [request EXCEPT !.pc = "command"]
         [] request.pc = "command" ->
               UpdateProgress(70) /\ request' = [request EXCEPT !.pc = "docker"]
    /\ op' = [name |-> "build", applied |-> TRUE, arg |-> 0]
    /\ UNCHANGED << inflight, tmpFile >>
    /\ StudioUnchanged

\* the encoder reports a time: onProgress starts an update of the row and the
\* read loop goes on without waiting for it; the output file is being written
EncoderProgress(progress) ==
    /\ request.pc \in {"docker", "binary"}
    /\ inflight' = inflight \cup {MappedProgress(progress)}
    /\ tmpFile' = "partial"
    /\ op' = [name |-> "onProgress", applied |-> TRUE, arg |-> progress]
    /\ UNCHANGED << job, request >>
    /\ StudioUnchanged

\* an update started by onProgress reaches the table
ApplyUpdate(p) ==
    /\ p \in inflight
    /\ UpdateProgress(p)
    /\ inflight' = inflight \ {p}
    /\ op' = [name |-> "update", applied |-> TRUE, arg |-> p]
    /\ UNCHANGED << request, tmpFile >>
    /\ StudioUnchanged

\* the encoder process ends: executeFFmpeg tries Docker, then the binary; a
\* non-zero exit or the timeout of the second attempt fails the export
EncoderExit(success) ==
    /\ request.pc \in {"docker", "binary"}
    /\ IF success
       THEN /\ UpdateProgress(90)
            /\ request' = [request EXCEPT !.pc = "upload"]
            /\ tmpFile' = "complete"
       ELSE /\ IF request.pc = "docker"
               THEN /\ request' = [request EXCEPT !.pc = "binary"]
                    /\ job' = job
               ELSE Catch("FFmpeg failed")
            /\ tmpFile' = tmpFile
    /\ op' = [name |-> "exit", applied |-> success, arg |-> 0]
    /\ UNCHANGED inflight
    /\ StudioUnchanged

\* the output file is read and uploaded, then removed from /tmp
Upload(ok) ==
    /\ request.pc = "upload"
    /\ IF ok
       THEN /\ UpdateProgress(95)
            /\ request' = [request EXCEPT !.pc = "complete"]
            /\ tmpFile' = "none"
       ELSE /\ Catch("Upload failed")
            /\ tmpFile' = tmpFile
    /\ op' = [name |-> "upload", applied |-> ok, arg |-> 0]
    /\ UNCHANGED inflight
    /\ StudioUnchanged

\* the job is recorded as completed and the response sent
Complete ==
    /\ request.pc = "complete"
    /\ job' = [job EXCEPT !.status = "completed", !.progress = 100,
                          !.output_url = "publicUrl"]
    /\ request' = [request EXCEPT !.pc = "returned"]
    /\ op' = [name |-> "complete", applied |-> TRUE, arg |-> 0]
    /\ UNCHANGED << inflight, tmpFile >>
    /\ StudioUnchanged

JobNext ==
    \/ \E found \in BOOLEAN : Accept(found)
    \/ \E found \in BOOLEAN : LoadProject(found)
    \/ Build
    \/ \E progress \in EncoderPercents : EncoderProgress(progress)
    \/ \E p \in 0..100 : ApplyUpdate(p)
    \/ \E success \in BOOLEAN : EncoderExit(success)
    \/ \E ok \in BOOLEAN : Upload(ok)
    \/ Complete

SpecJob == Init /\ [][JobNext]_vars

(***************************************************************************)
(* Auto-save: the editor of a signed-in user with the wall clock running   *)
(* in steps of 10 s.  Every handler that commits a new project re-runs the *)
(* effect, which clears the pending timeout and sets a new one.            *)
(***************************************************************************)
\* what the clock, the timeout and the sign-in leave alone
SaveUnchanged ==
    UNCHANGED << editVars, transportVars, edits, canvasVars, exportVars, serviceVars >>

\* 10 s pass with no timeout due
SaveTick ==
    /\ saveTimeoutRef /= 0
    /\ unsaved < MaxUnsaved
    /\ saveTimeoutRef' = IF saveTimeoutRef = NoTimer THEN NoTimer ELSE saveTimeoutRef - 1
    /\ unsaved' = IF unsaved = NoTime \/ ~user THEN unsaved ELSE unsaved + 1
    /\ op' = [name |-> "wait", applied |-> TRUE, arg |-> 0]
    /\ UNCHANGED << user, cloud >>
    /\ SaveUnchanged

\* handleSaveProject: if (!user) return; saveProject(project, user.id)
SaveProject ==
    /\ cloud' = IF user THEN project ELSE cloud
    /\ unsaved' = IF user THEN NoTime ELSE unsaved

\* the timeout fires
AutoSave ==
    /\ saveTimeoutRef = 0
    /\ saveTimeoutRef' = NoTimer
    /\ SaveProject
    /\ op' = [name |-> "autosave", applied |-> user, arg |-> 0]
    /\ UNCHANGED user
    /\ SaveUnchanged

\* Ctrl+S
SaveShortcut ==
    /\ user
    /\ unsaved /= NoTime
    /\ SaveProject
    /\ op' = [name |-> "save", applied |-> TRUE, arg |-> 0]
    /\ UNCHANGED << user, saveTimeoutRef >>
    /\ SaveUnchanged

\* handleSignOut: the effect's cleanup clears the timeout, the sign-in screen
\* replaces the editor
handleSignOut ==
    /\ user
    /\ Idle
    /\ PointerFree
    /\ user' = FALSE
    /\ saveTimeoutRef' = NoTimer
    /\ op' = [name |-> "signOut", applied |-> TRUE, arg |-> 0]
    /\ UNCHANGED << unsaved, cloud >>
    /\ SaveUnchanged

\* onAuthStateChange: the effect runs for the new user
SignIn ==
    /\ ~user
    /\ user' = TRUE
    /\ saveTimeoutRef' = AutoSaveDelay
    /\ op' = [name |-> "signIn", applied |-> TRUE, arg |-> 0]
    /\ UNCHANGED << unsaved, cloud >>
    /\ SaveUnchanged

SaveNext ==
    \/ user /\ addTextToTimeline
    \/ user /\ PanelInput
    \/ user /\ handleDelete
    \/ SaveTick
    \/ AutoSave
    \/ SaveShortcut
    \/ handleSignOut
    \/ SignIn

SpecSave == Init /\ [][SaveNext]_vars

\* the transport alone
ClockNext ==
    \/ \E t \in TimelineTimes : updatePlayheadPosition(t)
    \/ TogglePlay
    \/ Tick
    \/ Update
    \/ Render

SpecClock == Init /\ [][ClockNext]_vars

(***************************************************************************)
(* Properties.                                                             *)
(***************************************************************************)
Items == AllItems(project.timeline)
SelectedItem == FindItem(Items, selectedItemId)
ResizingTarget == FindItem(Items, resizingItem.itemId)
DraggedItem == FindItem(Items, draggingItem.itemId)
AssetType(item) == FindAsset(project.assets, item.assetId).type
TrackKindFor(type) ==
    IF type = "audio" THEN "audio" ELSE IF type = "text" THEN "text" ELSE "video"

\* C1: after any sequence of edit operations every item on every track has
\* duration > 0 and startTime >= 0.
C1_ItemsWellFormed ==
    \A k \in 1..Len(Items) : Items[k].duration > 0 /\ Items[k].startTime >= 0

\* the playhead is strictly inside the selected item
C2_SplitApplies ==
    /\ selectedItemId /= NoId
    /\ SelectedItem /= NoItem
    /\ currentTime > SelectedItem.startTime
    /\ currentTime < SelectedItem.startTime + SelectedItem.duration

C2_SplitPost ==
    \E k \in TrackIndexes : \E idx \in 1..Len(project.timeline[k].items) :
        LET old == project.timeline[k].items
            new == project'.timeline[k].items
            item == old[idx]
        IN /\ item.id = selectedItemId
           /\ Len(new) = Len(old) + 1
           /\ \A j \in 1..(idx - 1) : new[j] = old[j]
           /\ \A j \in (idx + 1)..Len(old) : new[j + 1] = old[j]
           /\ new[idx] = [item EXCEPT !.duration = currentTime - item.startTime]
           /\ new[idx + 1].id \notin ItemIds(project.timeline)
           /\ new[idx + 1] =
                [item EXCEPT !.id = new[idx + 1].id, !.startTime = currentTime,
                             !.duration = item.startTime + item.duration - currentTime]
           /\ new[idx].startTime + new[idx].duration = new[idx + 1].startTime
           /\ new[idx + 1].startTime + new[idx + 1].duration
                = item.startTime + item.duration
           /\ [project'.timeline[k] EXCEPT !.items = old] = project.timeline[k]
           /\ \A j \in TrackIndexes \ {k} : project'.timeline[j] = project.timeline[j]
           /\ project'.assets = project.assets

\* C2: a split of the selected item at a playhead strictly inside it replaces
\* it, at its position on its track, by two contiguous parts: the first keeps
\* the id and the start and ends at the playhead, the second has a new id,
\* starts at the playhead and ends where the item ended; every other attribute
\* is shared and nothing else changes.
C2_SplitContract ==
    [][(handleSplit /\ C2_SplitApplies) => C2_SplitPost]_vars

\* a split has just replaced an item by two contiguous parts, the second selected
C2_SplitHappened ==
    /\ op.name = "split"
    /\ op.applied
    /\ \E k \in TrackIndexes : \E idx \in 1..(Len(project.timeline[k].items) - 1) :
          /\ project.timeline[k].items[idx + 1].id = selectedItemId
          /\ project.timeline[k].items[idx].startTime + project.timeline[k].items[idx].duration
               = project.timeline[k].items[idx + 1].startTime

\* C3: a split with the playhead not strictly inside the selected item, or
\* with nothing selected, changes neither the project nor the selection.
C3_SplitOutsideIsNoOp ==
    [][(handleSplit /\ ~C2_SplitApplies)
          => (project' = project /\ selectedItemId' = selectedItemId)]_vars

\* a split was asked for with the playhead exactly on the end of the selected item
C3_SplitOnBoundaryHappened ==
    /\ op.name = "split"
    /\ ~op.applied
    /\ SelectedItem /= NoItem
    /\ currentTime = SelectedItem.startTime + SelectedItem.duration

\* C4: every resize step of the start edge leaves startTime + duration equal
\* to what it was when the resize began.
C4_StartResizeKeepsEnd ==
    (op.name = "resize" /\ op.applied /\ resizingItem.side = "start")
        => ResizingTarget.startTime + ResizingTarget.duration
             = resizingItem.initialStart + resizingItem.initialDuration

\* the resize step with the pointer at p asks for less than the minimum duration
C5_Undershoots(p) ==
    /\ resizingItem /= NoResize
    /\ ResizingTarget /= NoItem
    /\ IF resizingItem.side = "start"
       THEN resizingItem.initialStart + resizingItem.initialDuration - Max(0, p) < MinDuration
       ELSE p - resizingItem.initialStart < MinDuration

\* C5 as stated: a resize step that would make the duration smaller than the
\* minimum leaves the item's startTime and duration as they were before the step.
C5_ResizeBelowMinimumRejected ==
    [][\A p \in PointerTimes :
          (handleMouseMove(p) /\ C5_Undershoots(p)) => ResizingTarget' = ResizingTarget]_vars

\* C5 as amended: such a resize step is clamped, the item's duration becomes
\* exactly the minimum, and a step of the end edge leaves startTime unchanged.
C5_ResizeBelowMinimumClamped ==
    [][\A p \in PointerTimes :
          (handleMouseMove(p) /\ C5_Undershoots(p))
             => /\ ResizingTarget'.duration = MinDuration
                /\ resizingItem.side = "end"
                     => ResizingTarget'.startTime = ResizingTarget.startTime]_vars

\* an end edge has just been dragged to less than the minimum duration
C5_ClampHappened ==
    /\ op.name = "resize"
    /\ op.applied
    /\ resizingItem.side = "end"
    /\ resizingItem.initialDuration > MinDuration
    /\ op.arg - resizingItem.initialStart < MinDuration
    /\ ResizingTarget.duration = MinDuration

C6_MoveExpected(targetTrackId, dropStartTime) ==
    IF FindTrack(project.timeline, targetTrackId).type /= TrackKindFor(AssetType(DraggedItem))
    THEN project' = project
    ELSE /\ project'.assets = project.assets
         /\ \A k \in TrackIndexes :
              LET t == project.timeline[k]
                  kept == SelectSeq(t.items, LAMBDA i : i.id /= DraggedItem.id)
              IN project'.timeline[k] =
                   [t EXCEPT !.items =
                       IF t.id = targetTrackId
                       THEN Append(kept, [DraggedItem EXCEPT !.startTime = dropStartTime])
                       ELSE kept]

\* C6: a move is rejected (project unchanged) whenever the kind of the target
\* track differs from the kind of the item's asset; otherwise the item leaves
\* its track and is appended to the target track with the new start time,
\* nothing else changed.
C6_MoveContract ==
    [][\A t \in TrackIds, d \in TimelineTimes :
          (handleTrackDrop(t, d) /\ dragType = "timeline-item" /\ DraggedItem /= NoItem)
             => C6_MoveExpected(t, d)]_vars

\* C7: every item on a track references an asset of a kind the track holds:
\* video tracks video and image, audio tracks audio, text tracks text.
C7_TrackKindsRespected ==
    \A k \in TrackIndexes : \A j \in 1..Len(project.timeline[k].items) :
        TrackKindFor(AssetType(project.timeline[k].items[j])) = project.timeline[k].type

\* the playhead the transport has computed last
Playhead == IF pendingTime /= NoTime THEN pendingTime ELSE currentTime

\* C9: while playing without a seek, at every frame the playhead equals
\* logicalTimeAtStart + (now - wallClockAtStart), the pair recorded when
\* playing began.
C9_PlayheadFollowsWallClock ==
    (op.name = "frame" /\ isPlaying /\ ~playStart.seeked)
        => Playhead = playStart.logical + (clock - playStart.wall)

C11_PreviewGain ==
    op.name = "frame" =>
        \A id \in DOMAIN audioElements :
            LET item == FindItem(Items, id)
                track == FindTrack(project.timeline, TrackOf(project.timeline, id))
                local == currentTime - item.startTime
            IN  item /= NoItem =>
                  /\ (local = 0 \/ local = item.duration) => audioElements[id].volume = 0
                  /\ 2 * local = item.duration
                        => audioElements[id].volume * 100 = track.volume * ItemGain(item)

C13_BindingsMatchAudioItems ==
    DOMAIN audioElements = AudioItemIds(project)

\* the only item of the timeline, an audio item, has just been deleted, and its
\* element is gone
C13_AudioItemDeleted ==
    /\ op.name = "delete"
    /\ Len(project.assets) = 1
    /\ project.assets[1].type = "audio"
    /\ edits = MaxEdits
    /\ Items = << >>
    /\ DOMAIN audioElements = {}

\* the visual items the playhead is inside
ActiveVisualIds ==
    {e.item.id : e \in {VisualEntries(project.timeline, 1)[k] :
                          k \in 1..Len(VisualEntries(project.timeline, 1))} \cap
                       {e \in {VisualEntries(project.timeline, 1)[k] :
                                 k \in 1..Len(VisualEntries(project.timeline, 1))} :
                           IsInside(currentTime, e.item)}}

C15_Numerator(item, field, remaining) ==
    IF field \in DOMAIN item /\ Fades(item[field]) /\ remaining < TransitionDuration(item)
    THEN remaining
    ELSE TransitionDuration(item)

C16_VideoPlayingOnlyWhileActive ==
    \A id \in DOMAIN videoElements :
        ~videoElements[id].paused =>
            /\ isPlaying
            /\ FindItem(Items, id) /= NoItem
            /\ IsInside(currentTime, FindItem(Items, id))

\* an export has just built its graph
Exported == op.name \in {"serve", "exportVideo"}

\* C17: the total duration of an export is the greatest startTime + duration
\* of the items when the timeline has an item, and the floor of 10 s only
\* when it has none.
C17_TotalDuration ==
    Exported =>
        IF Items = << >>
        THEN filterComplex.maxDuration = FloorDuration
        ELSE /\ \A k \in 1..Len(Items) :
                  Items[k].startTime + Items[k].duration <= filterComplex.maxDuration
             /\ \E k \in 1..Len(Items) :
                  Items[k].startTime + Items[k].duration = filterComplex.maxDuration

\* the items of the video and text tracks whose asset is a video, an image or a text
VisualItems ==
    {e.item : e \in {VisualEntries(project.timeline, 1)[k] :
                       k \in 1..Len(VisualEntries(project.timeline, 1))}}

\* C18: the export graph has exactly one visual node for every visual item
\* (video, image or text, on a video or text track), with a timing offset
\* equal to the item's startTime.
C18_OneVisualNodePerVisualItem ==
    Exported =>
        \A item \in VisualItems :
            AssetType(item) \in {"video", "image", "text"} =>
                /\ Cardinality({k \in 1..Len(filterComplex.video) :
                                   filterComplex.video[k].id = item.id}) = 1
                /\ \A k \in 1..Len(filterComplex.video) :
                      filterComplex.video[k].id = item.id
                         => filterComplex.video[k].offset = item.startTime

\* C19: the export graph has exactly one audio node for every audio item and
\* none for any other item; each is delayed by startTime x 1000 ms and trimmed
\* to the item's duration.
C19_OneAudioNodePerAudioItem ==
    Exported =>
        /\ \A k \in 1..Len(filterComplex.audio) :
              LET item == FindItem(Items, filterComplex.audio[k].id)
              IN  /\ item /= NoItem
                  /\ AssetType(item) = "audio"
                  /\ filterComplex.audio[k].delay = item.startTime * MillisPerUnit
                  /\ filterComplex.audio[k].trim = item.duration
        /\ \A id \in AudioItemIds(project) :
              Cardinality({k \in 1..Len(filterComplex.audio) :
                              filterComplex.audio[k].id = id}) = 1

\* C20: the gain of every audio item's export node is track gain x item gain
\* (1 when the item has none), the product the preview gain is defined by.
C20_ExportGainIsProduct ==
    Exported =>
        \A k \in 1..Len(filterComplex.audio) :
            LET item == FindItem(Items, filterComplex.audio[k].id)
                track == FindTrack(project.timeline,
                                   TrackOf(project.timeline, filterComplex.audio[k].id))
            IN  AssetType(item) = "audio"
                   => filterComplex.audio[k].volume * 100 = track.volume * ItemGain(item)

\* the instants the export is compared with the preview at
ExportTimes == {0, 2, 15, 22, 30, 45, 60}

\* the factor (a percentage) the fade filters of a node apply at tt after its start
C21_FadeFactor(node, tt) ==
    (IF node.fadeIn.d > 0 /\ tt < node.fadeIn.st + node.fadeIn.d
     THEN (100 * (tt - node.fadeIn.st)) \div node.fadeIn.d
     ELSE 100)
    *
    (IF node.fadeOut.d > 0 /\ tt > node.fadeOut.st
     THEN (100 * (node.fadeOut.st + node.fadeOut.d - tt)) \div node.fadeOut.d
     ELSE 100)

\* the nodes of the graph showing their item at t, bottom to top, each with
\* its effective opacity in millionths
C21_GraphFrame(t) ==
    LET on == SelectSeq(filterComplex.video,
                        LAMBDA n : n.offset <= t /\ t < n.offset + n.trim)
    IN  [k \in 1..Len(on) |->
            [id |-> on[k].id,
             alpha |-> on[k].opacity * C21_FadeFactor(on[k], t - on[k].offset)]]

\* what the compositor draws with the playhead at t
C21_CompositorFrame(t) ==
    [k \in 1..Len(Drawn(project, t)) |->
        [id |-> Drawn(project, t)[k].item.id,
         alpha |-> GlobalAlpha(Drawn(project, t)[k].item,
                               t - Drawn(project, t)[k].item.startTime)]]

\* C21: at every instant within the output duration the graph built by the
\* edge function shows the items the compositor draws at that playhead
\* position, in the same bottom-to-top order and with the same effective
\* opacity.
C21_ExportMatchesCompositor ==
    op.name = "serve" =>
        \A t \in ExportTimes :
            t < filterComplex.maxDuration => C21_GraphFrame(t) = C21_CompositorFrame(t)

\* the filters of a chain of tokens: the runs between separators
RECURSIVE C26_Statements(_)
C26_Statements(tokens) ==
    IF \A k \in 1..Len(tokens) : tokens[k] /= Separator
    THEN << tokens >>
    ELSE LET k == CHOOSE j \in 1..Len(tokens) :
                     /\ tokens[j] = Separator
                     /\ \A i \in 1..(j - 1) : tokens[i] /= Separator
         IN  << SubSeq(tokens, 1, k - 1) >>
                \o C26_Statements(SubSeq(tokens, k + 1, Len(tokens)))

\* a statement is input labels, one overlay filter, one output label
C26_IsOverlay(st) ==
    /\ Len(st) >= 3
    /\ st[Len(st) - 1] = Filter("overlay")
    /\ \A k \in 1..Len(st) : k /= Len(st) - 1 => st[k].t = "label"

\* the visual labels the statements read, in the order they are read
RECURSIVE C26_VisualInputs(_, _)
C26_VisualInputs(tokens, k) ==
    IF k > Len(tokens) THEN << >>
    ELSE (IF tokens[k].t = "label" /\ tokens[k].name = "v" THEN << tokens[k].n >> ELSE << >>)
            \o C26_VisualInputs(tokens, k + 1)

\* the position of an item among the items of the video tracks
C26_TimelineIndex(id) ==
    CHOOSE k \in 1..Len(EntriesOf(project.timeline, "video", 1)) :
        EntriesOf(project.timeline, "video", 1)[k].item.id = id

\* C26: n >= 1 visual nodes are combined by n - 1 overlay filters taking the
\* nodes in ascending layer order (equal layers in timeline order); every
\* filter reads labels that a node or an earlier filter has produced, every
\* intermediate label is produced once, and [vout] is the output of the last
\* filter; with no visual node nothing refers to [vout].
C26_OverlayChainWellFormed ==
    Exported =>
        LET n == Len(filterComplex.video)
            sts == C26_Statements(filterComplex.overlay)
        IN  IF n = 0
            THEN /\ \A k \in 1..Len(filterComplex.overlay) :
                       filterComplex.overlay[k] /= Label("vout", 0)
                 /\ filterComplex.vmap.label /= "vout"
            ELSE /\ Len(sts) = Max(n - 1, 1)
                 /\ Cardinality({k \in 1..Len(filterComplex.overlay) :
                                    filterComplex.overlay[k] = Filter("overlay")}) = n - 1
                 /\ \A j \in 1..Len(sts) :
                       /\ C26_IsOverlay(sts[j])
                       /\ \A k \in 1..(Len(sts[j]) - 2) :
                             \/ /\ sts[j][k].name = "v"
                                /\ sts[j][k].n \in 0..(n - 1)
                             \/ \E i \in 1..(j - 1) : sts[i][Len(sts[i])] = sts[j][k]
                       /\ sts[j][Len(sts[j])].name /= "v"
                       /\ \A i \in 1..(j - 1) : sts[i][Len(sts[i])] /= sts[j][Len(sts[j])]
                 /\ sts[Len(sts)][Len(sts[Len(sts)])] = Label("vout", 0)
                 /\ C26_VisualInputs(filterComplex.overlay, 1) = [k \in 1..n |-> k - 1]
                 /\ \A j, k \in 1..n :
                       j < k =>
                          LET a == FindItem(Items, filterComplex.video[j].id)
                              b == FindItem(Items, filterComplex.video[k].id)
                          IN  \/ a.layer < b.layer
                              \/ /\ a.layer = b.layer
                                 /\ C26_TimelineIndex(a.id) < C26_TimelineIndex(b.id)

\* input i (0-based) of the command is the one that was added for source x
C28_InputIs(i, x) ==
    /\ i + 1 \in DOMAIN filterComplex.inputs
    /\ filterComplex.inputs[i + 1] = x

\* every node reads the input added for its item
C28_NodesReadTheirInput ==
    /\ \A k \in 1..Len(filterComplex.video) :
          /\ filterComplex.video[k].input = k - 1
          /\ C28_InputIs(k - 1, [src |-> "asset", id |-> filterComplex.video[k].id])
    /\ \A k \in 1..Len(filterComplex.audio) :
          C28_InputIs(filterComplex.audio[k].input,
                      [src |-> "asset", id |-> filterComplex.audio[k].id])

\* C28: in the generated command visual node i reads input i, every audio
\* node reads the input added for its item, and a black-background or
\* silent-audio source is mapped by the index it was added at.
C28_InputIndexesRefer ==
    Exported =>
        /\ C28_NodesReadTheirInput
        /\ filterComplex.vmap.label = "" => C28_InputIs(filterComplex.vmap.input, ColorSource)
        /\ filterComplex.amap.label = "" => C28_InputIs(filterComplex.amap.input, SilentSource)

\* C22: the progress recorded for the job stays within 0..100 and never
\* decreases, whatever the order in which the updates of the progress
\* callback and of the handler reach the table, and a job recorded as
\* completed has progress 100.
C22_ProgressMonotone ==
    [][/\ job'.progress >= job.progress
       /\ job'.progress \in 0..100
       /\ job'.status = "completed" => job'.progress = 100]_vars

\* C23: once the handler has returned, a job it had set to processing is
\* completed with an output URL or failed with an error message.
C23_TerminalAfterReturn ==
    request.pc = "returned" =>
        /\ job.status /= "processing"
        /\ job.status = "completed" => job.output_url /= ""
        /\ request.error /= "" /\ request.error /= "Job not found" =>
              job.status = "failed" /\ job.error_message /= ""

\* C24: once the handler has returned from a failed attempt, no output file
\* of the job is left in /tmp.
C24_PartialOutputDiscarded ==
    request.pc = "returned" /\ request.error /= "" => tmpFile = "none"

\* C25: while a user is signed in no change of the project waits more than
\* 30 s for a save, further changes or not.
C25_SavedWithinDelay ==
    user => unsaved <= AutoSaveDelay

\* C29: at most one caller of load() is initialising the encoder core at a
\* time, and a call that has returned without throwing finds the service
\* loaded, also when it waited for another caller's load.
C29_LoadedOnReturn ==
    /\ Cardinality({c \in LoadCallers : callers[c] = "core"}) <= 1
    /\ \A c \in LoadCallers : callers[c] = "returned" => ffmpegService.loaded

\* C27: every edit operation leaves the model it was given as it was: the
\* timeline of the previous model, the item list of every track included, is
\* after the operation what it was before it
C27_PreviousModelUnchanged == previous.prev = previous.before

====
